---- MODULE Spec2Model ----
(***************************************************************************)
(* State synchronisation of the Velocity bot dashboards.                   *)
(*                                                                         *)
(* The repository ships three front ends that show and toggle the bot's    *)
(* run flag, and a statistics hook.  Each is a separate program; `variant` *)
(* says which one is mounted in a behaviour:                               *)
(*   "web"    web/src/components/Dashboard.tsx with hooks/useRealtime.ts   *)
(*   "screen" the mobile DashboardScreen (unnamed/part_009)                *)
(*   "button" the mobile BotToggleButton (unnamed/part_010) over the axios *)
(*            client of mobile/App.tsx                                     *)
(*   "stats"  a page using the useStats hook (unnamed/part_003)            *)
(* Further programs have specifications of their own:                      *)
(*   "page"      the refactored web pair, Dashboard (unnamed/part_006)     *)
(*               rendered inside PageContainer (unnamed/part_007): PageSpec *)
(*   "container" the StatsPage (web/src/app/stats/page.tsx), which is      *)
(*               PageContainer around static children: ContainerSpec       *)
(*   "app"       the root component of the mobile app (mobile/App.tsx)     *)
(*   "config"    the watchlist of the ConfigPage                           *)
(*               (web/src/app/config/page.tsx): ConfigSpec                 *)
(* The backend, the relational store and the change feed are the           *)
(* environment: what they answer is drawn with \E from small sets.         *)
(* A nullable value is a sequence: <<>> is null/undefined, <<v>> is v.     *)
(***************************************************************************)
EXTENDS Integers, Sequences, FiniteSets, TLC

VARIABLES
    variant,        \* which front end is mounted
    \* ---- web Dashboard (Dashboard.tsx) ----
    isActive,       \* useState(false)
    mt5Connected,   \* useState(false)
    positionCount,  \* useState(0)
    loading,        \* useState(false): the lock shared by the handlers
    statusError,    \* TRUE iff statusError = 'Backend offline'
    pollsInFlight,  \* getStatus() requests not yet settled
    effectDue,      \* botStatus changed and the effect has not run yet
    \* ---- useRealtime (useRealtime.ts) ----
    botStatus,      \* <<>> or <<is_active>>
    positions,      \* set of tickets
    openPL,         \* sum of profit over the fetched positions
    fetchStatusInFlight,    \* fetchData calls awaiting the bot_status select
    fetchPositionsInFlight, \* fetchData calls awaiting the positions select
    \* ---- mobile DashboardScreen (part_009) ----
    status,         \* <<>> or <<is_active>>
    screenLoading,  \* `loading`, useState(true)
    toggling,       \* useState(false)
    statusFetch,    \* the mount-time fetchStatus() is in flight
    \* ---- mobile BotToggleButton (part_010) ----
    isRunning,      \* useState(false)
    btnLoading,     \* `loading`, useState(false)
    \* ---- useStats (part_003) ----
    stats,          \* <<>> or <<the record the RPC returned>>
    isLoading,      \* useState(true)
    error,          \* TRUE iff `error` holds a message
    trend,          \* 'up' | 'down' | 'neutral'
    isSyncing,      \* useState(false)
    statsFetches,   \* fetchStats calls of the effect and the channels
                    \* awaiting the RPC
    syncPosts,      \* syncTrades calls awaiting POST /api/sync-trades
    syncFetches,    \* syncTrades calls awaiting their fetchStats()
    observed,       \* floating_pnl of the records taken in, oldest first
    trends,         \* the trend after each of them
    statsChannels,  \* channels the hook has subscribed and not removed
    staleFetches,   \* how many of statsFetches were issued before the POST of
                    \* the last sync came back
    syncShown,      \* "none", or after a sync whose own fetchStats()
                    \* succeeded: "fresh" if the statistics held were returned
                    \* by a fetchStats() issued after its POST, else "stale"
    \* ---- handler invocations awaiting their backend call ----
    calls,
    \* ---- history of what the operator and the sources have seen ----
    source,         \* which write produced the visible run flag
    errs,           \* error alerts shown for the command issued last
    lastResp,       \* how the call of the command completed last ended
    lastConfirmed,  \* run flag of the confirmed update (poll, feed, response)
                    \* that the component showing the flag took in last
    consecFails,    \* status polls that failed since the last one that
                    \* succeeded (counted up to FailCap)
    lastUpdated,    \* `last_updated` of the row held in botStatus, 0 for none
    mounted,        \* the mounted component has not been unmounted yet
    \* ---- PageContainer (part_007) and its useRealtime instance ----
    pcIsActive,     \* `isActive`, useState(false): the header badge
    pcMt5Connected, \* `mt5Connected`, useState(false)
    pcStatusError,  \* TRUE iff statusError = 'Backend offline'
    pcPolls,        \* getStatus() requests of the container not yet settled
    pcTimers,       \* intervals set and not cleared
    pcBotStatus,    \* `botStatus` of its useRealtime(): <<>> or <<is_active>>
    pcEffectDue,    \* that botStatus changed and the effect has not run yet
    pcFetches,      \* its fetchData calls awaiting the bot_status select
    pcChannels,     \* 'dashboard' channels it has subscribed and not removed
    pcLastReceived, \* run flag of the poll result or bot_status row received last
    \* ---- Dashboard (part_006) and its useRealtime instance ----
    dbIsActive,     \* `isActive`, useState(false): the toggle control
    dbLoading,      \* `loading`, useState(false)
    dbPositionCount,\* `positionCount`, useState(0)
    dbCountFetch,   \* the mount-time getStatus() is in flight
    dbCall,         \* <<>> or <<kind>> of the start/stop call that is out
    dbBotStatus,    \* `botStatus` of its useRealtime(): <<>> or <<is_active>>
    dbDefaulted,    \* the flag in dbBotStatus was filled in by `?? false`
    dbEffectDue,    \* that botStatus changed and the effect has not run yet
    dbPositions,    \* `positions`: set of tickets
    dbOpenPL,       \* `openPL`
    dbFetches,      \* its fetchData calls in flight, in the order they started
    dbChannels,     \* 'dashboard' channels it has subscribed and not removed
    \* ---- mobile App (mobile/App.tsx) ----
    session,        \* useState(null): <<>> or <<the session>>
    appLoading,     \* `loading`, useState(true)
    sessionFetch,   \* getSession() is in flight
    authListeners,  \* callbacks registered with onAuthStateChange
    \* ---- ConfigPage (web/src/app/config/page.tsx) ----
    strategy_symbols, \* `config.strategy_symbols`: a string
    configFetch,    \* fetchData of the mount effect is in flight
    startList,      \* the watchlist the operations started from: empty, or
                    \* the one shown when the configuration was loaded
    lastToggle      \* <<>>, or <<the symbol of the toggleSymbol made last and
                    \* the watchlist it was made on>> when no other change
                    \* of the watchlist followed it

vars == <<variant, isActive, mt5Connected, positionCount, loading, statusError,
          pollsInFlight, effectDue, botStatus, positions, openPL,
          fetchStatusInFlight, fetchPositionsInFlight, status, screenLoading,
          toggling, statusFetch, isRunning, btnLoading, calls, source, errs,
          lastResp, lastConfirmed, consecFails, lastUpdated, stats, isLoading,
          isSyncing, error, trend, statsFetches, syncPosts, syncFetches,
          observed, trends, mounted, pcIsActive, pcMt5Connected,
          pcStatusError, pcPolls, pcTimers, pcBotStatus, pcEffectDue,
          pcFetches, pcChannels, pcLastReceived, dbIsActive, dbLoading,
          dbPositionCount, dbCountFetch, dbCall, dbBotStatus, dbDefaulted,
          dbEffectDue, dbPositions, dbOpenPL, dbFetches, dbChannels,
          statsChannels, session, appLoading, sessionFetch, authListeners,
          staleFetches, syncShown, strategy_symbols, configFetch, startList,
          lastToggle>>

webVars == <<isActive, mt5Connected, positionCount, loading, statusError,
             pollsInFlight, effectDue>>
realtimeVars == <<botStatus, positions, openPL, fetchStatusInFlight,
                  fetchPositionsInFlight>>
screenVars == <<status, screenLoading, toggling, statusFetch>>
buttonVars == <<isRunning, btnLoading>>
cmdHistory == <<errs, lastResp>>
obsHistory == <<consecFails, lastUpdated>>
statsVars == <<stats, isLoading, isSyncing, error, trend, statsFetches,
               syncPosts, syncFetches, observed, trends, statsChannels,
               staleFetches, syncShown>>
containerVars == <<pcIsActive, pcMt5Connected, pcStatusError, pcPolls,
                   pcTimers, pcBotStatus, pcEffectDue, pcFetches, pcChannels,
                   pcLastReceived>>
dashboardVars == <<dbIsActive, dbLoading, dbPositionCount, dbCountFetch,
                   dbCall, dbBotStatus, dbDefaulted, dbEffectDue, dbPositions,
                   dbOpenPL, dbFetches, dbChannels>>
pageVars == <<containerVars, dashboardVars>>
appVars == <<session, appLoading, sessionFetch, authListeners>>
configVars == <<strategy_symbols, configFetch, startList, lastToggle>>

(* What the steps of the four front ends above leave alone. *)
restVars == <<mounted, pageVars, appVars, configVars>>

(* The state of the four front ends. *)
frontVars == <<webVars, realtimeVars, screenVars, buttonVars, statsVars,
               calls, source, cmdHistory, lastConfirmed, obsHistory>>

----------------------------------------------------------------------------
(* Bounds of the model *)

MaxPolls == 2
MaxFetches == 1
MaxCalls == 2
MaxPositionCount == 1
FailCap == 3
MaxStamp == 2
MaxStatsFetches == 2
MaxSyncs == 1
MaxObs == 3
MaxPagePolls == 1
MaxContainerFetches == 1
MaxPageFetches == 2
MaxServerSymbols == 4

(* `currentSymbols.length >= 3`, `selectedSymbolsList.length > 3`, `slice(0, 3)` *)
MaxSymbols == 3

Variants == {"web", "screen", "button", "stats"}
Tickets == {"A", "B"}
Null == <<>>
MaybeBool == {Null, <<TRUE>>, <<FALSE>>}

Stamps == 1..MaxStamp

(* A bot_status row as the store delivers it: either flag may be missing; *)
(* `last_updated` is the time the backend wrote the row.                  *)
Rows == [running : MaybeBool, is_active : MaybeBool, last_updated : Stamps]

(* What a backend call can come back with: a success body, a success body *)
(* carrying `error`, or a thrown error (network failure, non-2xx status). *)
Responses == [type : {"ok", "error", "fail"}, running : BOOLEAN]

(* `status.running ?? status.is_active ?? false` *)
Coalesce(row) ==
    IF row.running # Null THEN row.running[1]
    ELSE IF row.is_active # Null THEN row.is_active[1]
    ELSE FALSE

Profit(t) == IF t = "A" THEN 3 ELSE 0 - 1

(* `positionsData.reduce((acc, pos) => acc + pos.profit, 0)` *)
RECURSIVE SumProfit(_)
SumProfit(S) ==
    IF S = {} THEN 0
    ELSE LET t == CHOOSE x \in S : TRUE IN Profit(t) + SumProfit(S \ {t})

(* An invocation of fetchData of the Dashboard's hook: which select it    *)
(* awaits, and whether a fetchData started after it has already shown    *)
(* its positions.                                                        *)
NewFetch == [phase |-> "status", overtaken |-> FALSE]

Remove(cs, i) == [j \in 1..(Len(cs) - 1) |-> IF j < i THEN cs[j] ELSE cs[j + 1]]

(* A confirmed update has reached the client while these calls were out. *)
Signal(cs) == [j \in DOMAIN cs |-> [cs[j] EXCEPT !.signalled = TRUE]]

(* The run flag a user of the mounted front end sees. *)
Running ==
    CASE variant = "web" -> isActive
      [] variant = "screen" -> (status # Null /\ status[1])
      [] OTHER -> isRunning

(* The flag that disables the toggle control. *)
Busy ==
    CASE variant = "web" -> loading
      [] variant = "screen" -> toggling
      [] OTHER -> btnLoading

NewCall(kind, prev, newValue) ==
    [kind |-> kind, prev |-> prev, newValue |-> newValue, pre |-> Running,
     expired |-> FALSE, signalled |-> FALSE]

ToggleKinds == {"start", "stop"}
Toggles == {i \in DOMAIN calls : calls[i].kind \in ToggleKinds}

----------------------------------------------------------------------------
(* State after mount: the effects have run once. *)

InitOf(v) ==
    /\ variant = v
    /\ isActive = FALSE /\ mt5Connected = FALSE /\ positionCount = 0
    /\ loading = FALSE /\ statusError = FALSE
    /\ pollsInFlight = (IF v = "web" THEN 1 ELSE 0)
    /\ effectDue = FALSE
    /\ botStatus = Null /\ positions = {} /\ openPL = 0
    /\ fetchStatusInFlight = (IF v = "web" THEN 1 ELSE 0)
    /\ fetchPositionsInFlight = 0
    /\ status = Null
    /\ screenLoading = (v = "screen")
    /\ toggling = FALSE
    /\ statusFetch = (v = "screen")
    /\ isRunning = FALSE /\ btnLoading = FALSE
    /\ calls = <<>>
    /\ source = "init" /\ errs = 0 /\ lastResp = "none" /\ lastConfirmed = Null
    /\ consecFails = 0 /\ lastUpdated = 0
    /\ stats = Null /\ isLoading = (v = "stats") /\ error = FALSE
    /\ isSyncing = FALSE /\ syncPosts = 0 /\ syncFetches = 0
    /\ trend = "neutral"
    /\ statsFetches = (IF v = "stats" THEN 1 ELSE 0)
    /\ observed = <<>> /\ trends = <<>>
    /\ statsChannels = (IF v = "stats" THEN 2 ELSE 0)
    /\ staleFetches = 0 /\ syncShown = "none"
    /\ mounted = TRUE
    /\ pcIsActive = FALSE /\ pcMt5Connected = FALSE /\ pcStatusError = FALSE
    /\ pcPolls = (IF v \in {"container", "page"} THEN 1 ELSE 0)
    /\ pcTimers = (IF v \in {"container", "page"} THEN 1 ELSE 0)
    /\ pcBotStatus = Null /\ pcEffectDue = FALSE
    /\ pcFetches = (IF v \in {"container", "page"} THEN 1 ELSE 0)
    /\ pcChannels = (IF v \in {"container", "page"} THEN 1 ELSE 0)
    /\ pcLastReceived = Null
    /\ dbIsActive = FALSE /\ dbLoading = FALSE /\ dbPositionCount = 0
    /\ dbCountFetch = (v = "page")
    /\ dbCall = Null
    /\ dbBotStatus = Null /\ dbDefaulted = FALSE /\ dbEffectDue = FALSE
    /\ dbPositions = {} /\ dbOpenPL = 0
    /\ dbFetches = (IF v = "page" THEN <<NewFetch>> ELSE <<>>)
    /\ dbChannels = (IF v = "page" THEN 1 ELSE 0)
    /\ session = Null
    /\ appLoading = (v = "app")
    /\ sessionFetch = (v = "app")
    /\ authListeners = (IF v = "app" THEN 1 ELSE 0)
    /\ strategy_symbols = <<>>
    /\ configFetch = (v = "config")
    /\ startList = <<>>
    /\ lastToggle = Null

Init == \E v \in Variants : InitOf(v)

----------------------------------------------------------------------------
(* web: status poll *)

(* setInterval(fetchBackendStatus, 5000) fires: getStatus() is requested. *)
PollTick ==
    /\ variant = "web"
    /\ pollsInFlight < MaxPolls
    /\ pollsInFlight' = pollsInFlight + 1
    /\ UNCHANGED <<variant, restVars, statsVars, obsHistory, isActive,
                   mt5Connected, positionCount, loading, statusError,
                   effectDue, realtimeVars, screenVars, buttonVars, calls,
                   source, cmdHistory, lastConfirmed>>

(* fetchBackendStatus, try branch: the snapshot is applied. *)
PollOk(running, connected, count) ==
    /\ variant = "web"
    /\ pollsInFlight > 0
    /\ pollsInFlight' = pollsInFlight - 1
    /\ isActive' = running
    /\ mt5Connected' = connected
    /\ positionCount' = count
    /\ statusError' = FALSE
    /\ calls' = Signal(calls)
    /\ source' = "poll"
    /\ lastConfirmed' = <<running>>
    /\ consecFails' = 0
    /\ UNCHANGED <<variant, restVars, statsVars, lastUpdated, loading,
                   effectDue, realtimeVars, screenVars, buttonVars,
                   cmdHistory>>

PollCatchClears ==
    isActive' = FALSE /\ mt5Connected' = FALSE /\ positionCount' = 0

(* What the catch block of fetchBackendStatus does to the displayed data. *)
PollCatchKeeps == UNCHANGED <<isActive, mt5Connected, positionCount>>

CountFail(n) == IF n < FailCap THEN n + 1 ELSE FailCap

PollFailRaisesAtThird ==
    /\ variant = "web"
    /\ pollsInFlight > 0
    /\ pollsInFlight' = pollsInFlight - 1
    /\ statusError' = (CountFail(consecFails) >= 3)
    /\ PollCatchKeeps
    /\ consecFails' = CountFail(consecFails)
    /\ UNCHANGED <<variant, restVars, statsVars, lastUpdated, loading,
                   effectDue, realtimeVars, screenVars, buttonVars, calls,
                   source, cmdHistory, lastConfirmed>>

(* fetchBackendStatus, catch branch. *)
PollFail ==
    /\ variant = "web"
    /\ pollsInFlight > 0
    /\ pollsInFlight' = pollsInFlight - 1
    /\ statusError' = TRUE
    /\ PollCatchKeeps
    /\ consecFails' = CountFail(consecFails)
    /\ UNCHANGED <<variant, restVars, statsVars, lastUpdated, loading,
                   effectDue, realtimeVars, screenVars, buttonVars, calls,
                   source, cmdHistory, lastConfirmed>>

----------------------------------------------------------------------------
(* web: useRealtime *)

(* The bot_status handler of the 'dashboard' channel. *)
FeedBotStatus(row) ==
    /\ variant = "web"
    /\ botStatus' = <<Coalesce(row)>>
    /\ effectDue' = TRUE
    /\ lastUpdated' = row.last_updated
    /\ calls' = Signal(calls)
    /\ UNCHANGED <<variant, restVars, statsVars, consecFails, isActive,
                   mt5Connected, positionCount, loading, statusError,
                   pollsInFlight, positions, openPL, fetchStatusInFlight,
                   fetchPositionsInFlight, screenVars, buttonVars, source,
                   cmdHistory, lastConfirmed>>

FeedPositionsPatches ==
    /\ variant = "web"
    /\ fetchStatusInFlight + fetchPositionsInFlight < MaxFetches
    /\ positions' = positions \cup {"A"}
    /\ openPL' = SumProfit(positions \cup {"A"})
    /\ UNCHANGED <<variant, restVars, statsVars, obsHistory, webVars,
                   botStatus, fetchStatusInFlight, fetchPositionsInFlight,
                   screenVars, buttonVars, calls, source, cmdHistory,
                   lastConfirmed>>

(* The positions handler of the channel: fetchData() again. *)
FeedPositions ==
    /\ variant = "web"
    /\ fetchStatusInFlight + fetchPositionsInFlight < MaxFetches
    /\ fetchStatusInFlight' = fetchStatusInFlight + 1
    /\ UNCHANGED <<variant, restVars, statsVars, obsHistory, webVars,
                   botStatus, positions, openPL, fetchPositionsInFlight,
                   screenVars, buttonVars, calls, source, cmdHistory,
                   lastConfirmed>>

(* fetchData, first await: the bot_status row, or no data. *)
FetchStatusDone(data) ==
    /\ variant = "web"
    /\ fetchStatusInFlight > 0
    /\ fetchStatusInFlight' = fetchStatusInFlight - 1
    /\ fetchPositionsInFlight' = fetchPositionsInFlight + 1
    /\ IF data # Null
       THEN /\ botStatus' = <<Coalesce(data[1])>>
            /\ lastUpdated' = data[1].last_updated
            /\ effectDue' = TRUE
            /\ calls' = Signal(calls)
       ELSE UNCHANGED <<botStatus, lastUpdated, effectDue, calls>>
    /\ UNCHANGED <<variant, restVars, statsVars, consecFails, isActive,
                   mt5Connected, positionCount, loading, statusError,
                   pollsInFlight, positions, openPL, screenVars, buttonVars,
                   source, cmdHistory, lastConfirmed>>

FetchPositionsDoneMerges(data) ==
    /\ variant = "web"
    /\ fetchPositionsInFlight > 0
    /\ fetchPositionsInFlight' = fetchPositionsInFlight - 1
    /\ IF data # Null
       THEN /\ positions' = positions \cup data[1]
            /\ openPL' = SumProfit(data[1])
       ELSE UNCHANGED <<positions, openPL>>
    /\ UNCHANGED <<variant, restVars, statsVars, obsHistory, webVars,
                   botStatus, fetchStatusInFlight, screenVars, buttonVars,
                   calls, source, cmdHistory, lastConfirmed>>

(* fetchData, second await: the complete position set, or no data. *)
FetchPositionsDone(data) ==
    /\ variant = "web"
    /\ fetchPositionsInFlight > 0
    /\ fetchPositionsInFlight' = fetchPositionsInFlight - 1
    /\ IF data # Null
       THEN /\ positions' = data[1]
            /\ openPL' = SumProfit(data[1])
       ELSE UNCHANGED <<positions, openPL>>
    /\ UNCHANGED <<variant, restVars, statsVars, obsHistory, webVars,
                   botStatus, fetchStatusInFlight, screenVars, buttonVars,
                   calls, source, cmdHistory, lastConfirmed>>

BotStatusEffectSkipsWhileLoading ==
    /\ variant = "web"
    /\ effectDue
    /\ pollsInFlight < MaxPolls
    /\ effectDue' = FALSE
    /\ pollsInFlight' = pollsInFlight + 1
    /\ IF botStatus # Null /\ ~loading
       THEN /\ isActive' = botStatus[1]
            /\ source' = "feed"
            /\ lastConfirmed' = botStatus
            /\ calls' = Signal(calls)
       ELSE UNCHANGED <<isActive, source, lastConfirmed, calls>>
    /\ UNCHANGED <<variant, restVars, statsVars, obsHistory, mt5Connected,
                   positionCount, loading, statusError, realtimeVars,
                   screenVars, buttonVars, cmdHistory>>

(* The Dashboard effect re-run for a new botStatus object: one more poll, *)
(* and the feed's flag is copied into isActive.                           *)
BotStatusEffect ==
    /\ variant = "web"
    /\ effectDue
    /\ pollsInFlight < MaxPolls
    /\ effectDue' = FALSE
    /\ pollsInFlight' = pollsInFlight + 1
    /\ IF botStatus # Null
       THEN /\ isActive' = botStatus[1]
            /\ source' = "feed"
            /\ lastConfirmed' = botStatus
            /\ calls' = Signal(calls)
       ELSE UNCHANGED <<isActive, source, lastConfirmed, calls>>
    /\ UNCHANGED <<variant, restVars, statsVars, obsHistory, mt5Connected,
                   positionCount, loading, statusError, realtimeVars,
                   screenVars, buttonVars, cmdHistory>>

----------------------------------------------------------------------------
(* web: toggleBot *)

toggleNeverDisabled == FALSE

(* `disabled={loading}` on the toggle button. *)
toggleDisabled == loading

(* toggleBot up to its await: stopBot() when isActive, else startBot(). *)
WebToggle ==
    /\ variant = "web"
    /\ ~toggleDisabled
    /\ Len(calls) < MaxCalls
    /\ loading' = TRUE
    /\ calls' = Append(calls,
                       NewCall(IF isActive THEN "stop" ELSE "start", Null, ~isActive))
    /\ errs' = 0
    /\ lastResp' = "none"
    /\ UNCHANGED <<variant, restVars, statsVars, obsHistory, isActive,
                   mt5Connected, positionCount, statusError, pollsInFlight,
                   effectDue, realtimeVars, screenVars, buttonVars, source,
                   lastConfirmed>>

AppliesResponseAlways(kind, type) == type # "fail"

(* Whether toggleBot copies the response's flag into isActive: always for *)
(* stop, for start only when the body carries no `error`.                 *)
AppliesResponse(kind, type) ==
    type # "fail" /\ (kind = "stop" \/ type = "ok")

(* Whether toggleBot shows an alert: the catch block, or start's res.error. *)
AlertsError(kind, type) ==
    type = "fail" \/ (kind = "start" /\ type = "error")

(* toggleBot after its await. *)
WebToggleReturn(i, resp) ==
    /\ variant = "web"
    /\ i \in Toggles
    /\ IF AppliesResponse(calls[i].kind, resp.type)
       THEN /\ isActive' = resp.running
            /\ source' = "response"
            /\ lastConfirmed' = <<resp.running>>
       ELSE UNCHANGED <<isActive, source, lastConfirmed>>
    /\ errs' = (IF AlertsError(calls[i].kind, resp.type) THEN errs + 1 ELSE errs)
    /\ lastResp' = resp.type
    /\ loading' = FALSE
    /\ calls' = Remove(calls, i)
    /\ UNCHANGED <<variant, restVars, statsVars, obsHistory, mt5Connected,
                   positionCount, statusError, pollsInFlight, effectDue,
                   realtimeVars, screenVars, buttonVars>>

(* apiFetch sets no timeout and no abort signal: when the timeout window  *)
(* of a command has passed, nothing happens in the client and the call    *)
(* stays out.                                                             *)
WindowElapses(i) ==
    /\ variant = "web"
    /\ i \in Toggles
    /\ ~calls[i].expired
    /\ calls' = [calls EXCEPT ![i].expired = TRUE]
    /\ UNCHANGED <<variant, restVars, statsVars, obsHistory, webVars,
                   realtimeVars, screenVars, buttonVars, source, cmdHistory,
                   lastConfirmed>>

----------------------------------------------------------------------------
(* web: handleOpenOrder *)

orderDisabledOffline == ~mt5Connected

(* `disabled={loading || !mt5Connected}` on the Buy and Sell buttons. *)
orderDisabled == loading \/ ~mt5Connected

(* An invocation of handleOpenOrder awaiting openOrder(). *)
OrderCall ==
    [kind |-> "order", prev |-> Null, newValue |-> FALSE, pre |-> FALSE,
     expired |-> FALSE, signalled |-> FALSE]

(* handleOpenOrder up to its await, for either direction. *)
OpenOrder ==
    /\ variant = "web"
    /\ ~orderDisabled
    /\ Len(calls) < MaxCalls
    /\ loading' = TRUE
    /\ calls' = Append(calls, OrderCall)
    /\ errs' = 0
    /\ lastResp' = "none"
    /\ UNCHANGED <<variant, restVars, statsVars, obsHistory, isActive,
                   mt5Connected, positionCount, statusError, pollsInFlight,
                   effectDue, realtimeVars, screenVars, buttonVars, source,
                   lastConfirmed>>

OpenOrderReturnAwaitsTick(i, ok) ==
    /\ variant = "web"
    /\ i \in DOMAIN calls
    /\ calls[i].kind = "order"
    /\ ok => pollsInFlight < MaxPolls
    /\ errs' = (IF ok THEN errs ELSE errs + 1)
    /\ lastResp' = (IF ok THEN "opened" ELSE "fail")
    /\ loading' = FALSE
    /\ calls' = Remove(calls, i)
    /\ UNCHANGED <<variant, restVars, statsVars, obsHistory, isActive,
                   mt5Connected, positionCount, statusError, pollsInFlight,
                   effectDue, realtimeVars, screenVars, buttonVars, source,
                   lastConfirmed>>

(* handleOpenOrder after its await: on success the 'order opened' alert   *)
(* and a call of fetchBackendStatus() that is not awaited, on a thrown    *)
(* error the 'Failed to open order' alert; then setLoading(false).        *)
OpenOrderReturn(i, ok) ==
    /\ variant = "web"
    /\ i \in DOMAIN calls
    /\ calls[i].kind = "order"
    /\ ok => pollsInFlight < MaxPolls
    /\ pollsInFlight' = (IF ok THEN pollsInFlight + 1 ELSE pollsInFlight)
    /\ errs' = (IF ok THEN errs ELSE errs + 1)
    /\ lastResp' = (IF ok THEN "opened" ELSE "fail")
    /\ loading' = FALSE
    /\ calls' = Remove(calls, i)
    /\ UNCHANGED <<variant, restVars, statsVars, obsHistory, isActive,
                   mt5Connected, positionCount, statusError, effectDue,
                   realtimeVars, screenVars, buttonVars, source,
                   lastConfirmed>>

----------------------------------------------------------------------------
(* mobile DashboardScreen *)

(* fetchStatus: `.single()` gives the row or an error. *)
FetchStatusReturn(data) ==
    /\ variant = "screen"
    /\ statusFetch
    /\ statusFetch' = FALSE
    /\ screenLoading' = FALSE
    /\ IF data # Null
       THEN /\ status' = data
            /\ source' = "fetch"
            /\ lastConfirmed' = data
            /\ calls' = Signal(calls)
       ELSE UNCHANGED <<status, source, lastConfirmed, calls>>
    /\ UNCHANGED <<variant, restVars, statsVars, obsHistory, webVars,
                   realtimeVars, toggling, buttonVars, cmdHistory>>

ScreenFeedIgnoredWhileToggling(is_active) ==
    /\ variant = "screen"
    /\ status' = (IF toggling THEN status ELSE <<is_active>>)
    /\ source' = (IF toggling THEN source ELSE "feed")
    /\ lastConfirmed' = <<is_active>>
    /\ calls' = Signal(calls)
    /\ UNCHANGED <<variant, restVars, statsVars, obsHistory, webVars,
                   realtimeVars, screenLoading, toggling, statusFetch,
                   buttonVars, cmdHistory>>

(* The UPDATE handler of the 'public:bot_status' channel. *)
ScreenFeed(is_active) ==
    /\ variant = "screen"
    /\ status' = <<is_active>>
    /\ source' = "feed"
    /\ lastConfirmed' = <<is_active>>
    /\ calls' = Signal(calls)
    /\ UNCHANGED <<variant, restVars, statsVars, obsHistory, webVars,
                   realtimeVars, screenLoading, toggling, statusFetch,
                   buttonVars, cmdHistory>>

(* `disabled={toggling}` on the Switch. *)
switchDisabled == toggling

OptimisticStatusSkipped(prev, newValue) == prev

(* `setStatus(prev => prev ? { ...prev, is_active: newValue } : null)` *)
OptimisticStatus(prev, newValue) ==
    IF prev # Null THEN <<newValue>> ELSE Null

(* `setStatus(prev => prev ? {...prev, is_active: previousStatus || false} : null)` *)
RevertStatus(prev, previousStatus) ==
    IF prev # Null THEN <<previousStatus # Null /\ previousStatus[1]>> ELSE Null

(* toggleBot(newValue) up to its await; the Switch passes !value. *)
ScreenToggle ==
    /\ variant = "screen"
    /\ ~screenLoading
    /\ ~switchDisabled
    /\ Len(calls) < MaxCalls
    /\ LET newValue == ~Running IN
        /\ calls' = Append(calls,
                           NewCall(IF newValue THEN "start" ELSE "stop", status, newValue))
        /\ status' = OptimisticStatus(status, newValue)
    /\ source' = (IF status # Null THEN "optimistic" ELSE source)
    /\ toggling' = TRUE
    /\ errs' = 0
    /\ lastResp' = "none"
    /\ UNCHANGED <<variant, restVars, statsVars, obsHistory, webVars,
                   realtimeVars, screenLoading, statusFetch, buttonVars,
                   lastConfirmed>>

(* toggleBot after its await: `error` set or not. *)
ScreenToggleReturn(i, failed) ==
    /\ variant = "screen"
    /\ i \in Toggles
    /\ IF failed
       THEN /\ errs' = errs + 1
            /\ status' = RevertStatus(status, calls[i].prev)
            /\ source' = (IF status # Null THEN "rollback" ELSE source)
            /\ lastResp' = "error"
            /\ UNCHANGED lastConfirmed
       ELSE /\ lastResp' = "ok"
            /\ lastConfirmed' = (IF calls[i].prev # Null
                                 THEN <<calls[i].newValue>> ELSE lastConfirmed)
            /\ UNCHANGED <<errs, status, source>>
    /\ toggling' = FALSE
    /\ calls' = Remove(calls, i)
    /\ UNCHANGED <<variant, restVars, statsVars, obsHistory, webVars,
                   realtimeVars, screenLoading, statusFetch, buttonVars>>

----------------------------------------------------------------------------
(* mobile BotToggleButton *)

(* `disabled={loading}` on both touchables. *)
buttonDisabled == btnLoading

(* handleToggle is memoised with an empty dependency list: the isRunning it *)
(* reads is the one of the first render.                                    *)
handleToggleIsRunning == FALSE

(* handleToggle up to its await. *)
ButtonToggle ==
    /\ variant = "button"
    /\ ~buttonDisabled
    /\ Len(calls) < MaxCalls
    /\ btnLoading' = TRUE
    /\ calls' = Append(calls,
                       NewCall(IF handleToggleIsRunning THEN "stop" ELSE "start",
                               Null, ~handleToggleIsRunning))
    /\ errs' = 0
    /\ lastResp' = "none"
    /\ UNCHANGED <<variant, restVars, statsVars, obsHistory, webVars,
                   realtimeVars, screenVars, isRunning, source,
                   lastConfirmed>>

(* handleToggle after its await: any 2xx body is applied and announced with *)
(* its status text; a thrown error gives the "Connection Error" alert.      *)
ButtonToggleReturn(i, resp) ==
    /\ variant = "button"
    /\ i \in Toggles
    /\ IF resp.type # "fail"
       THEN /\ isRunning' = resp.running
            /\ source' = "response"
            /\ lastConfirmed' = <<resp.running>>
            /\ UNCHANGED errs
       ELSE /\ errs' = errs + 1
            /\ UNCHANGED <<isRunning, source, lastConfirmed>>
    /\ lastResp' = resp.type
    /\ btnLoading' = FALSE
    /\ calls' = Remove(calls, i)
    /\ UNCHANGED <<variant, restVars, statsVars, obsHistory, webVars,
                   realtimeVars, screenVars>>

(* handleRefresh up to its await. *)
ButtonRefresh ==
    /\ variant = "button"
    /\ ~buttonDisabled
    /\ Len(calls) < MaxCalls
    /\ btnLoading' = TRUE
    /\ calls' = Append(calls, NewCall("refresh", Null, FALSE))
    /\ UNCHANGED <<variant, restVars, statsVars, obsHistory, webVars,
                   realtimeVars, screenVars, isRunning, source, cmdHistory,
                   lastConfirmed>>

(* handleRefresh after its await; its catch block is empty. *)
ButtonRefreshReturn(i, ok, running) ==
    /\ variant = "button"
    /\ i \in DOMAIN calls
    /\ calls[i].kind = "refresh"
    /\ IF ok
       THEN /\ isRunning' = running
            /\ source' = "poll"
            /\ lastConfirmed' = <<running>>
       ELSE UNCHANGED <<isRunning, source, lastConfirmed>>
    /\ btnLoading' = FALSE
    /\ calls' = Remove(calls, i)
    /\ UNCHANGED <<variant, restVars, statsVars, obsHistory, webVars,
                   realtimeVars, screenVars, cmdHistory>>

(* `timeout: 10_000` of the axios instance: the request is aborted and the *)
(* awaiting handler continues in its catch block.                          *)
AxiosTimeout(i) ==
    /\ variant = "button"
    /\ i \in DOMAIN calls
    /\ IF calls[i].kind = "refresh"
       THEN UNCHANGED cmdHistory
       ELSE errs' = errs + 1 /\ lastResp' = "timeout"
    /\ btnLoading' = FALSE
    /\ calls' = Remove(calls, i)
    /\ UNCHANGED <<variant, restVars, statsVars, obsHistory, webVars,
                   realtimeVars, screenVars, isRunning, source,
                   lastConfirmed>>

----------------------------------------------------------------------------
(* useStats *)

Pnls == {10, 15}
Totals == {0, 100}

(* What calculate_user_stats returns, as far as the hook reads it. *)
StatsData == [floating_pnl : Pnls, total_profit : Totals]

(* Requests of the hook that have not settled yet. *)
StatsOutstanding == statsFetches + syncPosts + syncFetches

(* The trade_logs handler: fetchStats(). *)
TradeLogsEvent ==
    /\ variant = "stats"
    /\ statsChannels > 0
    /\ statsFetches < MaxStatsFetches
    /\ Len(observed) + StatsOutstanding < MaxObs
    /\ statsFetches' = statsFetches + 1
    /\ UNCHANGED <<variant, restVars, obsHistory, webVars, realtimeVars,
                   screenVars, buttonVars, calls, source, cmdHistory,
                   lastConfirmed, stats, isLoading, isSyncing, error, trend,
                   syncPosts, syncFetches, observed, trends, statsChannels,
                   staleFetches, syncShown>>

(* The active_trades handler: fetchStats(), the payload is not read. *)
ActiveTradesEvent ==
    /\ variant = "stats"
    /\ statsChannels > 0
    /\ statsFetches < MaxStatsFetches
    /\ Len(observed) + StatsOutstanding < MaxObs
    /\ statsFetches' = statsFetches + 1
    /\ UNCHANGED <<variant, restVars, obsHistory, webVars, realtimeVars,
                   screenVars, buttonVars, calls, source, cmdHistory,
                   lastConfirmed, stats, isLoading, isSyncing, error, trend,
                   syncPosts, syncFetches, observed, trends, statsChannels,
                   staleFetches, syncShown>>

TrendOfTieUp(prevFloat, newFloat) ==
    IF newFloat >= prevFloat THEN "up" ELSE "down"

(* The comparison in the setStats updater. *)
TrendOf(prevFloat, newFloat) ==
    IF newFloat > prevFloat THEN "up"
    ELSE IF newFloat < prevFloat THEN "down"
    ELSE "neutral"

FetchStatsSettlesComparesTotal(res) ==
    IF ~mounted
    THEN UNCHANGED <<stats, trend, observed, trends, error, isLoading>>
    ELSE /\ IF res # Null
            THEN /\ trend' = (IF stats # Null
                              THEN TrendOf(stats[1].total_profit, res[1].total_profit)
                              ELSE trend)
                 /\ stats' = res
                 /\ observed' = Append(observed, res[1].floating_pnl)
                 /\ trends' = Append(trends, trend')
                 /\ UNCHANGED error
            ELSE /\ error' = TRUE
                 /\ UNCHANGED <<stats, trend, observed, trends>>
         /\ isLoading' = FALSE

FetchStatsSettlesClearsOnError(res) ==
    IF ~mounted
    THEN UNCHANGED <<stats, trend, observed, trends, error, isLoading>>
    ELSE /\ IF res # Null
            THEN /\ trend' = (IF stats # Null
                              THEN TrendOf(stats[1].floating_pnl, res[1].floating_pnl)
                              ELSE trend)
                 /\ stats' = res
                 /\ observed' = Append(observed, res[1].floating_pnl)
                 /\ trends' = Append(trends, trend')
                 /\ UNCHANGED error
            ELSE /\ error' = TRUE
                 /\ stats' = Null
                 /\ UNCHANGED <<trend, observed, trends>>
         /\ isLoading' = FALSE

(* fetchStats after its await: the RPC gave an error (res = Null) or a    *)
(* record; with a record held, the updater sets the trend from the two    *)
(* floating_pnl values; `finally` clears isLoading.  React drops the      *)
(* updates of a component that has been unmounted.                        *)
FetchStatsSettles(res) ==
    IF ~mounted
    THEN UNCHANGED <<stats, trend, observed, trends, error, isLoading>>
    ELSE /\ IF res # Null
            THEN /\ trend' = (IF stats # Null
                              THEN TrendOf(stats[1].floating_pnl, res[1].floating_pnl)
                              ELSE trend)
                 /\ stats' = res
                 /\ observed' = Append(observed, res[1].floating_pnl)
                 /\ trends' = Append(trends, trend')
                 /\ UNCHANGED error
            ELSE /\ error' = TRUE
                 /\ UNCHANGED <<stats, trend, observed, trends>>
         /\ isLoading' = FALSE

(* A fetchStats() of the effect or of a channel handler settles: one     *)
(* issued before the POST of the last sync came back (early), or one     *)
(* issued after it.                                                      *)
FetchStatsReturn(res) ==
    /\ variant = "stats"
    /\ statsFetches > 0
    /\ statsFetches' = statsFetches - 1
    /\ FetchStatsSettles(res)
    /\ \E early \in BOOLEAN :
        /\ IF early THEN staleFetches > 0 ELSE statsFetches > staleFetches
        /\ staleFetches' = (IF early THEN staleFetches - 1 ELSE staleFetches)
        /\ syncShown' =
              (IF res = Null \/ ~mounted \/ syncShown = "none" THEN syncShown
               ELSE IF early THEN "stale" ELSE "fresh")
    /\ UNCHANGED <<variant, restVars, obsHistory, webVars, realtimeVars,
                   screenVars, buttonVars, calls, source, cmdHistory,
                   lastConfirmed, isSyncing, syncPosts, syncFetches,
                   statsChannels>>

(* syncTrades up to its await of the POST. *)
SyncTrades ==
    /\ variant = "stats"
    /\ mounted
    /\ syncPosts + syncFetches < MaxSyncs
    /\ Len(observed) + StatsOutstanding < MaxObs
    /\ isSyncing' = TRUE
    /\ syncPosts' = syncPosts + 1
    /\ UNCHANGED <<variant, restVars, obsHistory, webVars, realtimeVars,
                   screenVars, buttonVars, calls, source, cmdHistory,
                   lastConfirmed, stats, isLoading, error, trend,
                   statsFetches, syncFetches, observed, trends, statsChannels,
                   staleFetches, syncShown>>

(* syncTrades after the POST: `!res.ok` or a thrown error ends it in the  *)
(* catch and finally blocks, otherwise fetchStats() is awaited.           *)
SyncPostReturn(ok) ==
    /\ variant = "stats"
    /\ syncPosts > 0
    /\ syncPosts' = syncPosts - 1
    /\ IF ok
       THEN /\ syncFetches' = syncFetches + 1
            /\ staleFetches' = statsFetches
            /\ syncShown' = "none"
            /\ UNCHANGED <<error, isSyncing>>
       ELSE /\ error' = (mounted \/ error)
            /\ isSyncing' = (~mounted /\ isSyncing)
            /\ UNCHANGED <<syncFetches, staleFetches, syncShown>>
    /\ UNCHANGED <<variant, restVars, obsHistory, webVars, realtimeVars,
                   screenVars, buttonVars, calls, source, cmdHistory,
                   lastConfirmed, stats, isLoading, trend, statsFetches,
                   observed, trends, statsChannels>>

(* The fetchStats() awaited by syncTrades settles (it catches its own     *)
(* errors), then `finally` clears isSyncing.                              *)
SyncFetchReturn(res) ==
    /\ variant = "stats"
    /\ syncFetches > 0
    /\ syncFetches' = syncFetches - 1
    /\ FetchStatsSettles(res)
    /\ isSyncing' = (~mounted /\ isSyncing)
    /\ syncShown' = (IF res # Null /\ mounted THEN "fresh" ELSE syncShown)
    /\ UNCHANGED staleFetches
    /\ UNCHANGED <<variant, restVars, obsHistory, webVars, realtimeVars,
                   screenVars, buttonVars, calls, source, cmdHistory,
                   lastConfirmed, statsFetches, syncPosts, statsChannels>>

(* The component using the hook is unmounted: the cleanup of the effect  *)
(* removes both channels.                                                *)
StatsUnmount ==
    /\ variant = "stats"
    /\ mounted
    /\ mounted' = FALSE
    /\ statsChannels' = 0
    /\ UNCHANGED <<variant, pageVars, appVars, configVars, obsHistory,
                   webVars, realtimeVars, screenVars, buttonVars, calls, source,
                   cmdHistory, lastConfirmed, stats, isLoading, isSyncing,
                   error, trend, statsFetches, syncPosts, syncFetches,
                   observed, trends, staleFetches, syncShown>>

(* The steps of a page that uses the hook. *)
StatsNext ==
    \/ TradeLogsEvent
    \/ ActiveTradesEvent
    \/ \E res \in {Null} \cup {<<d>> : d \in StatsData} : FetchStatsReturn(res)
    \/ SyncTrades
    \/ \E ok \in BOOLEAN : SyncPostReturn(ok)
    \/ \E res \in {Null} \cup {<<d>> : d \in StatsData} : SyncFetchReturn(res)
    \/ StatsUnmount

----------------------------------------------------------------------------
(* mobile App *)

Sessions == {Null, <<"user">>}

(* `supabase.auth.getSession().then(...)` of the mount effect. *)
GetSessionReturn(s) ==
    /\ variant = "app"
    /\ sessionFetch
    /\ sessionFetch' = FALSE
    /\ session' = (IF mounted THEN s ELSE session)
    /\ appLoading' = (~mounted /\ appLoading)
    /\ UNCHANGED <<variant, frontVars, configVars, pageVars,
                   mounted, authListeners>>

(* The callback given to onAuthStateChange is called: sign-in, sign-out,  *)
(* token refresh.                                                         *)
AuthStateChange(s) ==
    /\ variant = "app"
    /\ authListeners > 0
    /\ session' = (IF mounted THEN s ELSE session)
    /\ UNCHANGED <<variant, frontVars, configVars, pageVars,
                   mounted, appLoading,
                   sessionFetch, authListeners>>

(* App is unmounted.  Its effect returns no cleanup, and the subscription *)
(* that onAuthStateChange returns is not kept.                            *)
AppUnmount ==
    /\ variant = "app"
    /\ mounted
    /\ mounted' = FALSE
    /\ UNCHANGED <<variant, frontVars, configVars, pageVars,
                   session, appLoading,
                   sessionFetch, authListeners>>

AppNext ==
    \/ \E s \in Sessions : GetSessionReturn(s)
    \/ \E s \in Sessions : AuthStateChange(s)
    \/ AppUnmount

----------------------------------------------------------------------------
(* PageContainer (part_007), of the StatsPage and of the refactored pair *)

(* Rows as the page variant draws them: is_active true, false or missing. *)
PageRows == {row \in Rows : row.running = Null /\ row.last_updated = 1}

PageTickets == {"A"}

(* The programs that render PageContainer. *)
Containers == {"container", "page"}

(* `status.running ?? status.is_active ?? false` took its last branch. *)
Defaulted(row) == row.running = Null /\ row.is_active = Null

(* The rows that carry a run flag. *)
FlaggedRows == {row \in PageRows : ~Defaulted(row)}

(* setInterval(fetchBackendStatus, 5000) fires. *)
PcPollTick ==
    /\ variant \in Containers
    /\ pcTimers > 0
    /\ pcPolls < MaxPagePolls
    /\ pcPolls' = pcPolls + 1
    /\ UNCHANGED <<variant, frontVars, configVars, appVars,
                   mounted, pcIsActive,
                   pcMt5Connected, pcStatusError, pcTimers, pcBotStatus,
                   pcEffectDue, pcFetches, pcChannels, pcLastReceived,
                   dashboardVars>>

(* fetchBackendStatus, try branch; React drops the updates of a component *)
(* that has been unmounted.                                               *)
PcPollOk(running, connected) ==
    /\ variant \in Containers
    /\ pcPolls > 0
    /\ pcPolls' = pcPolls - 1
    /\ IF mounted
       THEN /\ pcIsActive' = running
            /\ pcMt5Connected' = connected
            /\ pcStatusError' = FALSE
            /\ pcLastReceived' = <<running>>
       ELSE UNCHANGED <<pcIsActive, pcMt5Connected, pcStatusError,
                        pcLastReceived>>
    /\ UNCHANGED <<variant, frontVars, configVars, appVars,
                   mounted, pcTimers,
                   pcBotStatus, pcEffectDue, pcFetches, pcChannels,
                   dashboardVars>>

(* fetchBackendStatus, catch branch. *)
PcPollFail ==
    /\ variant \in Containers
    /\ pcPolls > 0
    /\ pcPolls' = pcPolls - 1
    /\ pcStatusError' = (mounted \/ pcStatusError)
    /\ UNCHANGED <<variant, frontVars, configVars, appVars,
                   mounted, pcIsActive,
                   pcMt5Connected, pcTimers, pcBotStatus, pcEffectDue,
                   pcFetches, pcChannels, pcLastReceived, dashboardVars>>

(* The bot_status handler of the container's 'dashboard' channel. *)
PcFeedBotStatus(row) ==
    /\ variant \in Containers
    /\ pcChannels > 0
    /\ pcBotStatus' = <<Coalesce(row)>>
    /\ pcEffectDue' = TRUE
    /\ pcLastReceived' = <<Coalesce(row)>>
    /\ UNCHANGED <<variant, frontVars, configVars, appVars,
                   mounted, pcIsActive,
                   pcMt5Connected, pcStatusError, pcPolls, pcTimers,
                   pcFetches, pcChannels, dashboardVars>>

(* The positions handler of the container's channel: fetchData() again. *)
PcFeedPositions ==
    /\ variant \in Containers
    /\ pcChannels > 0
    /\ pcFetches < MaxContainerFetches
    /\ pcFetches' = pcFetches + 1
    /\ UNCHANGED <<variant, frontVars, configVars, appVars,
                   mounted, pcIsActive,
                   pcMt5Connected, pcStatusError, pcPolls, pcTimers,
                   pcBotStatus, pcEffectDue, pcChannels, pcLastReceived,
                   dashboardVars>>

(* fetchData of the container's hook, first await.  The container reads   *)
(* only botStatus of the hook: the positions select that follows changes  *)
(* nothing it shows.                                                      *)
PcFetchStatusDone(data) ==
    /\ variant \in Containers
    /\ pcFetches > 0
    /\ pcFetches' = pcFetches - 1
    /\ IF data # Null /\ mounted
       THEN /\ pcBotStatus' = <<Coalesce(data[1])>>
            /\ pcEffectDue' = TRUE
            /\ pcLastReceived' = <<Coalesce(data[1])>>
       ELSE UNCHANGED <<pcBotStatus, pcEffectDue, pcLastReceived>>
    /\ UNCHANGED <<variant, frontVars, configVars, appVars,
                   mounted, pcIsActive,
                   pcMt5Connected, pcStatusError, pcPolls, pcTimers,
                   pcChannels, dashboardVars>>

RestartIntervalLeaks(n) == n + 1

(* The cleanup of the effect's previous run, `clearInterval(interval)`,   *)
(* then `setInterval(fetchBackendStatus, 5000)` of the new run.           *)
RestartInterval(n) == (n - 1) + 1

(* The container's effect re-run for a new botStatus object: one more     *)
(* poll, a new interval, and the feed's flag copied into isActive.        *)
PcEffect ==
    /\ variant \in Containers
    /\ mounted
    /\ pcEffectDue
    /\ pcPolls < MaxPagePolls
    /\ pcEffectDue' = FALSE
    /\ pcPolls' = pcPolls + 1
    /\ pcTimers' = RestartInterval(pcTimers)
    /\ pcIsActive' = (IF pcBotStatus # Null THEN pcBotStatus[1] ELSE pcIsActive)
    /\ UNCHANGED <<variant, frontVars, configVars, appVars,
                   mounted, pcMt5Connected,
                   pcStatusError, pcBotStatus, pcFetches, pcChannels,
                   pcLastReceived, dashboardVars>>

(* The StatsPage is left: the cleanups of the container's effect, which  *)
(* clears its interval, and of its useRealtime, which removes its        *)
(* channel; an effect that was due does not run any more.                *)
ContainerUnmount ==
    /\ variant = "container"
    /\ mounted
    /\ mounted' = FALSE
    /\ pcTimers' = pcTimers - 1
    /\ pcChannels' = pcChannels - 1
    /\ pcEffectDue' = FALSE
    /\ UNCHANGED <<variant, frontVars, configVars, appVars,
                   pcIsActive, pcMt5Connected,
                   pcStatusError, pcPolls, pcBotStatus, pcFetches,
                   pcLastReceived, dashboardVars>>

(* The steps of PageContainer; what a row without a run flag does is     *)
(* followed on the Dashboard's useRealtime instance.                     *)
ContainerSteps ==
    \/ PcPollTick
    \/ \E r, m \in BOOLEAN : PcPollOk(r, m)
    \/ PcPollFail
    \/ \E row \in FlaggedRows : PcFeedBotStatus(row)
    \/ PcFeedPositions
    \/ \E data \in {Null} \cup {<<row>> : row \in FlaggedRows} : PcFetchStatusDone(data)
    \/ PcEffect

(* The steps of the StatsPage: its container. *)
ContainerNext ==
    \/ ContainerSteps
    \/ ContainerUnmount

----------------------------------------------------------------------------
(* page: Dashboard (part_006) *)

(* `getStatus().then(status => setPositionCount(...)).catch(console.error)` *)
(* of the mount-time effect.                                                *)
DbCountReturn(ok, count) ==
    /\ variant = "page"
    /\ dbCountFetch
    /\ dbCountFetch' = FALSE
    /\ dbPositionCount' = (IF ok THEN count ELSE dbPositionCount)
    /\ UNCHANGED <<variant, frontVars, configVars, appVars,
                   mounted, containerVars,
                   dbIsActive, dbLoading, dbCall, dbBotStatus, dbDefaulted,
                   dbEffectDue, dbPositions, dbOpenPL, dbFetches, dbChannels>>

(* The bot_status handler of the Dashboard's 'dashboard' channel. *)
DbFeedBotStatus(row) ==
    /\ variant = "page"
    /\ dbChannels > 0
    /\ dbBotStatus' = <<Coalesce(row)>>
    /\ dbDefaulted' = Defaulted(row)
    /\ dbEffectDue' = TRUE
    /\ UNCHANGED <<variant, frontVars, configVars, appVars,
                   mounted, containerVars,
                   dbIsActive, dbLoading, dbPositionCount, dbCountFetch,
                   dbCall, dbPositions, dbOpenPL, dbFetches, dbChannels>>

(* The positions handler of the Dashboard's channel: fetchData() again. *)
DbFeedPositions ==
    /\ variant = "page"
    /\ dbChannels > 0
    /\ Len(dbFetches) < MaxPageFetches
    /\ dbFetches' = Append(dbFetches, NewFetch)
    /\ UNCHANGED <<variant, frontVars, configVars, appVars,
                   mounted, containerVars,
                   dbIsActive, dbLoading, dbPositionCount, dbCountFetch,
                   dbCall, dbBotStatus, dbDefaulted, dbEffectDue, dbPositions,
                   dbOpenPL, dbChannels>>

(* fetchData of the Dashboard's hook, first await. *)
DbFetchStatusDone(i, data) ==
    /\ variant = "page"
    /\ i \in DOMAIN dbFetches
    /\ dbFetches[i].phase = "status"
    /\ dbFetches' = [dbFetches EXCEPT ![i].phase = "positions"]
    /\ IF data # Null
       THEN /\ dbBotStatus' = <<Coalesce(data[1])>>
            /\ dbDefaulted' = Defaulted(data[1])
            /\ dbEffectDue' = TRUE
       ELSE UNCHANGED <<dbBotStatus, dbDefaulted, dbEffectDue>>
    /\ UNCHANGED <<variant, frontVars, configVars, appVars,
                   mounted, containerVars,
                   dbIsActive, dbLoading, dbPositionCount, dbCountFetch,
                   dbCall, dbPositions, dbOpenPL, dbChannels>>

(* The fetchData calls started before call i have been overtaken by it. *)
Overtake(fs, i) ==
    [j \in DOMAIN fs |-> IF j < i THEN [fs[j] EXCEPT !.overtaken = TRUE] ELSE fs[j]]

(* fetchData of the Dashboard's hook, second await: whichever call        *)
(* settles sets positions and openPL.                                     *)
DbFetchPositionsDone(i, data) ==
    /\ variant = "page"
    /\ i \in DOMAIN dbFetches
    /\ dbFetches[i].phase = "positions"
    /\ IF data # Null
       THEN /\ dbPositions' = data[1]
            /\ dbOpenPL' = SumProfit(data[1])
            /\ dbFetches' = Remove(Overtake(dbFetches, i), i)
       ELSE /\ dbFetches' = Remove(dbFetches, i)
            /\ UNCHANGED <<dbPositions, dbOpenPL>>
    /\ UNCHANGED <<variant, frontVars, configVars, appVars,
                   mounted, containerVars,
                   dbIsActive, dbLoading, dbPositionCount, dbCountFetch,
                   dbCall, dbBotStatus, dbDefaulted, dbEffectDue, dbChannels>>

(* The Dashboard's effect on botStatus. *)
DbEffect ==
    /\ variant = "page"
    /\ dbEffectDue
    /\ dbEffectDue' = FALSE
    /\ dbIsActive' = (IF dbBotStatus # Null THEN dbBotStatus[1] ELSE dbIsActive)
    /\ UNCHANGED <<variant, frontVars, configVars, appVars,
                   mounted, containerVars,
                   dbLoading, dbPositionCount, dbCountFetch, dbCall,
                   dbBotStatus, dbDefaulted, dbPositions, dbOpenPL, dbFetches,
                   dbChannels>>

(* toggleBot of part_006 up to its await; the button has `disabled={loading}`. *)
DbToggle ==
    /\ variant = "page"
    /\ ~dbLoading
    /\ dbLoading' = TRUE
    /\ dbCall' = <<IF dbIsActive THEN "stop" ELSE "start">>
    /\ UNCHANGED <<variant, frontVars, configVars, appVars,
                   mounted, containerVars,
                   dbIsActive, dbPositionCount, dbCountFetch, dbBotStatus,
                   dbDefaulted, dbEffectDue, dbPositions, dbOpenPL, dbFetches,
                   dbChannels>>

(* toggleBot of part_006 after its await. *)
DbToggleReturn(resp) ==
    /\ variant = "page"
    /\ dbCall # Null
    /\ dbCall' = Null
    /\ dbIsActive' = (IF AppliesResponse(dbCall[1], resp.type)
                      THEN resp.running ELSE dbIsActive)
    /\ dbLoading' = FALSE
    /\ UNCHANGED <<variant, frontVars, configVars, appVars,
                   mounted, containerVars,
                   dbPositionCount, dbCountFetch, dbBotStatus, dbDefaulted,
                   dbEffectDue, dbPositions, dbOpenPL, dbFetches, dbChannels>>

(* The steps of the refactored pair; leaving the page is followed on the *)
(* StatsPage.                                                            *)
PageNext ==
    \/ ContainerSteps
    \/ \E ok \in BOOLEAN, n \in 0..MaxPositionCount : DbCountReturn(ok, n)
    \/ \E row \in PageRows : DbFeedBotStatus(row)
    \/ DbFeedPositions
    \/ \E i \in DOMAIN dbFetches, data \in {Null} \cup {<<row>> : row \in PageRows} :
            DbFetchStatusDone(i, data)
    \/ \E i \in DOMAIN dbFetches, data \in {Null} \cup {<<S>> : S \in SUBSET PageTickets} :
            DbFetchPositionsDone(i, data)
    \/ DbEffect
    \/ DbToggle
    \/ \E resp \in Responses : DbToggleReturn(resp)

----------------------------------------------------------------------------
(* ConfigPage (web/src/app/config/page.tsx): the symbol watchlist *)

(* A string is the sequence of its characters; a symbol name is a string  *)
(* without commas and without spaces at its ends.                         *)
Symbols == {<<"A">>, <<"B">>, <<"C">>, <<"D">>}

(* `str.split(',')` *)
RECURSIVE Split(_)
Split(str) ==
    IF \E i \in DOMAIN str : str[i] = ","
    THEN LET i == CHOOSE k \in DOMAIN str :
                      str[k] = "," /\ \A j \in 1..(k - 1) : str[j] # ","
         IN <<SubSeq(str, 1, i - 1)>> \o Split(SubSeq(str, i + 1, Len(str)))
    ELSE <<str>>

RECURSIVE TrimStart(_)
TrimStart(tok) ==
    IF tok # <<>> /\ Head(tok) = " " THEN TrimStart(Tail(tok)) ELSE tok

RECURSIVE TrimEnd(_)
TrimEnd(tok) ==
    IF tok # <<>> /\ tok[Len(tok)] = " "
    THEN TrimEnd(SubSeq(tok, 1, Len(tok) - 1)) ELSE tok

(* `s.trim()` *)
Trim(tok) == TrimEnd(TrimStart(tok))

(* `.split(',').map(s => s.trim()).filter(Boolean)` *)
SymbolsOf(str) ==
    LET toks == Split(str)
    IN SelectSeq([i \in DOMAIN toks |-> Trim(toks[i])], LAMBDA t : t # <<>>)

(* `list.join(sep)` *)
RECURSIVE JoinWith(_, _)
JoinWith(list, sep) ==
    IF list = <<>> THEN <<>>
    ELSE IF Len(list) = 1 THEN list[1]
    ELSE list[1] \o sep \o JoinWith(Tail(list), sep)

(* `.join(', ')` *)
Join(list) == JoinWith(list, <<",", " ">>)

(* `list.includes(symbol)` *)
Includes(list, symbol) == \E i \in DOMAIN list : list[i] = symbol

(* `list.filter(s => s !== symbol)` *)
Without(list, symbol) == SelectSeq(list, LAMBDA s : s # symbol)

ToggledAlwaysAdds(list, symbol) ==
    IF Len(list) >= MaxSymbols THEN list ELSE Append(list, symbol)

(* The list toggleSymbol stores, or the current one when it returns after *)
(* the alert.                                                             *)
Toggled(list, symbol) ==
    IF Includes(list, symbol) THEN Without(list, symbol)
    ELSE IF Len(list) >= MaxSymbols THEN list
    ELSE Append(list, symbol)

(* The safeguard in the render: more than three symbols are cut to the    *)
(* first three with setConfig, which renders again before anything else   *)
(* happens.                                                               *)
Rendered(str) ==
    IF Len(SymbolsOf(str)) > MaxSymbols
    THEN Join(SubSeq(SymbolsOf(str), 1, MaxSymbols))
    ELSE str

(* `selectedSymbolsList` of the render. *)
selectedSymbolsList == SymbolsOf(strategy_symbols)

(* What getConfig() can deliver as strategy_symbols: lists of up to       *)
(* MaxServerSymbols names, repeated names included, written with any of   *)
(* the separators, with or without a trailing comma.                      *)
ServerLists ==
    UNION {[1..n -> Symbols] : n \in 0..MaxServerSymbols}

Separators == {<<",">>, <<",", " ">>}

ServerStrings ==
    {JoinWith(l, sep) \o post :
        l \in ServerLists, sep \in Separators, post \in {<<>>, <<",">>}}

(* fetchData of the mount effect: `if (data) setConfig({...})`. *)
ConfigLoaded(str) ==
    /\ variant = "config"
    /\ configFetch
    /\ configFetch' = FALSE
    /\ strategy_symbols' = Rendered(str)
    /\ startList' = SymbolsOf(strategy_symbols')
    /\ lastToggle' = Null
    /\ UNCHANGED <<variant, mounted, frontVars, pageVars, appVars>>

(* fetchData fails: the catch block logs. *)
ConfigLoadFails ==
    /\ variant = "config"
    /\ configFetch
    /\ configFetch' = FALSE
    /\ UNCHANGED <<variant, mounted, frontVars, pageVars, appVars,
                   strategy_symbols, startList, lastToggle>>

(* toggleSymbol(symbol), from a row of the dropdown, which opens only     *)
(* when selectionLoading is off, that is after fetchData has settled.     *)
ToggleSymbol(symbol) ==
    /\ variant = "config"
    /\ ~configFetch
    /\ LET currentSymbols == SymbolsOf(strategy_symbols) IN
        /\ strategy_symbols' =
              (IF ~Includes(currentSymbols, symbol)
                  /\ Len(currentSymbols) >= MaxSymbols
               THEN strategy_symbols
               ELSE Rendered(Join(Toggled(currentSymbols, symbol))))
        /\ lastToggle' = <<[symbol |-> symbol, before |-> currentSymbols]>>
    /\ UNCHANGED <<variant, mounted, frontVars, pageVars, appVars,
                   configFetch, startList>>

(* removeSymbol(symbol), from the chip of a selected symbol. *)
RemoveSymbol(symbol) ==
    /\ variant = "config"
    /\ Includes(selectedSymbolsList, symbol)
    /\ strategy_symbols' =
          Rendered(Join(Without(SymbolsOf(strategy_symbols), symbol)))
    /\ lastToggle' = Null
    /\ UNCHANGED <<variant, mounted, frontVars, pageVars, appVars,
                   configFetch, startList>>

(* The steps of the configuration page. *)
ConfigNext ==
    \/ \E str \in ServerStrings : ConfigLoaded(str)
    \/ ConfigLoadFails
    \/ \E symbol \in Symbols : ToggleSymbol(symbol)
    \/ \E symbol \in Symbols : RemoveSymbol(symbol)

----------------------------------------------------------------------------

Next ==
    \/ PollTick
    \/ \E r, m \in BOOLEAN, n \in 0..MaxPositionCount : PollOk(r, m, n)
    \/ PollFail
    \/ \E row \in Rows : FeedBotStatus(row)
    \/ FeedPositions
    \/ \E data \in {Null} \cup {<<row>> : row \in Rows} : FetchStatusDone(data)
    \/ \E data \in {Null} \cup {<<S>> : S \in SUBSET Tickets} : FetchPositionsDone(data)
    \/ BotStatusEffect
    \/ WebToggle
    \/ \E i \in DOMAIN calls, resp \in Responses : WebToggleReturn(i, resp)
    \/ \E i \in DOMAIN calls : WindowElapses(i)
    \/ OpenOrder
    \/ \E i \in DOMAIN calls, ok \in BOOLEAN : OpenOrderReturn(i, ok)
    \/ \E data \in MaybeBool : FetchStatusReturn(data)
    \/ \E b \in BOOLEAN : ScreenFeed(b)
    \/ ScreenToggle
    \/ \E i \in DOMAIN calls, failed \in BOOLEAN : ScreenToggleReturn(i, failed)
    \/ ButtonToggle
    \/ \E i \in DOMAIN calls, resp \in Responses : ButtonToggleReturn(i, resp)
    \/ ButtonRefresh
    \/ \E i \in DOMAIN calls, ok, r \in BOOLEAN : ButtonRefreshReturn(i, ok, r)
    \/ \E i \in DOMAIN calls : AxiosTimeout(i)
    \/ StatsNext

Spec == Init /\ [][Next]_vars

(* Timers fire and scheduled effects run.  Status polls are taken to     *)
(* settle, which only narrows the behaviours; no answer is owed to a      *)
(* start/stop call.                                                       *)
FairSpec ==
    /\ Spec
    /\ WF_vars(PollTick)
    /\ WF_vars(BotStatusEffect)
    /\ WF_vars(\E i \in DOMAIN calls : AxiosTimeout(i))
    /\ WF_vars(PollFail \/ \E r, m \in BOOLEAN, n \in 0..MaxPositionCount : PollOk(r, m, n))

(* The statistics hook on its own. *)
StatsInit == Init /\ variant = "stats"

StatsSpec == StatsInit /\ [][StatsNext]_vars

(* The refactored web pair on its own. *)
PageInit == InitOf("page")

PageSpec == PageInit /\ [][PageNext]_vars

(* The StatsPage (web/src/app/stats/page.tsx): PageContainer around       *)
(* static children.                                                       *)
ContainerInit == InitOf("container")

ContainerSpec == ContainerInit /\ [][ContainerNext]_vars

(* The programs whose unmounting is followed: the StatsPage, a page using *)
(* useStats, and the mobile App.                                          *)
TeardownInit == \E v \in {"container", "stats", "app"} : InitOf(v)

TeardownNext ==
    \/ ContainerNext
    \/ StatsNext
    \/ AppNext

TeardownSpec == TeardownInit /\ [][TeardownNext]_vars

(* The configuration page on its own. *)
ConfigInit == InitOf("config")

ConfigSpec == ConfigInit /\ [][ConfigNext]_vars

----------------------------------------------------------------------------
(* Vocabulary of the properties *)

NumToggles(cs) == Cardinality({i \in DOMAIN cs : cs[i].kind \in ToggleKinds})

ToggleRequest == WebToggle \/ ScreenToggle \/ ButtonToggle

(* A step that issues start() while the visible flag is off. *)
IssuesStart ==
    /\ ~Running
    /\ Len(calls') = Len(calls) + 1
    /\ calls'[Len(calls')].kind = "start"

StartPending == \E i \in Toggles : calls[i].kind = "start"

(* A step in which a successful poll reporting running = TRUE is applied. *)
PollReportsRunning ==
    /\ variant = "web"
    /\ pollsInFlight' = pollsInFlight - 1
    /\ ~statusError'
    /\ isActive'

(* A step in which a feed event carrying run flag b reaches the visible flag. *)
FeedApplied(b) ==
    \/ ScreenFeed(b)
    \/ BotStatusEffect /\ botStatus = <<b>>

(* A step in which a poll or feed update carrying run flag b is applied. *)
UpdateApplied(b) ==
    \/ FeedApplied(b)
    \/ \E m \in BOOLEAN, n \in 0..MaxPositionCount : PollOk(b, m, n)

(* A step in which the call of toggle i comes back. *)
Returns(i) == i \in Toggles /\ calls' = Remove(calls, i)

Rejections == {"error", "fail"}

----------------------------------------------------------------------------
(* C1: at most one start/stop call is out at any time, and while one is   *)
(* out no toggle request is accepted: the disabled control starts no      *)
(* handler, so a request made then issues no call and changes no state.   *)
C1_SingleToggleOutstanding ==
    /\ NumToggles(calls) <= 1
    /\ (Toggles # {} => Busy /\ ~ENABLED ToggleRequest)

(* A toggle is out and the control is disabled. *)
C1_Witness == variant = "web" /\ NumToggles(calls) = 1 /\ loading

(* C2, as claimed: start() issued with running = FALSE shows running =    *)
(* TRUE with source optimistic at once; a later poll reporting running =  *)
(* TRUE makes the source poll, clears the pending command and surfaces no *)
(* error.                                                                 *)
C2_OptimisticThenPollClears ==
    [][ /\ (IssuesStart => Running' /\ source' = "optimistic")
        /\ (StartPending /\ PollReportsRunning =>
                source' = "poll" /\ NumToggles(calls') = 0 /\ errs' = 0)
      ]_vars

(* C2, amended: only the mobile screen with a loaded status row shows the *)
(* optimistic flag; the other front ends leave flag and source untouched  *)
(* when start() is issued.  A poll reporting running = TRUE sets the flag *)
(* with source poll and no error, and the command stays pending.          *)
C2_OptimisticOnScreenPollKeepsPending ==
    [][ /\ (IssuesStart =>
                IF variant = "screen" /\ status # Null
                THEN Running' /\ source' = "optimistic"
                ELSE Running' = Running /\ source' = source)
        /\ (StartPending /\ PollReportsRunning =>
                /\ Running' /\ source' = "poll" /\ errs' = 0
                /\ NumToggles(calls') = 1 /\ Busy')
      ]_vars

(* A start is pending on the web dashboard and a poll has set the flag. *)
C2_Witness ==
    /\ variant = "web" /\ loading /\ isActive /\ source = "poll" /\ errs = 0
    /\ \E i \in Toggles : calls[i].kind = "start" /\ calls[i].signalled

(* C3, as claimed (web dashboard and mobile screen): when the call of a   *)
(* start() comes back rejected, the visible flag is the one from before   *)
(* the command and exactly one error has been shown.                      *)
C3_RejectedStartRestores ==
    [][ \A i \in DOMAIN calls :
            ( /\ variant \in {"web", "screen"}
              /\ Returns(i) /\ calls[i].kind = "start"
              /\ lastResp' \in Rejections )
            => Running' = calls[i].pre /\ errs' = 1
      ]_vars

(* C3, amended: exactly one error is shown; the mobile screen restores    *)
(* the pre-command flag; the web dashboard leaves the flag as it is,      *)
(* which is the pre-command flag unless a poll or feed update was applied *)
(* while the command was out.                                             *)
C3_RejectedStartOneError ==
    [][ \A i \in DOMAIN calls :
            ( /\ variant \in {"web", "screen"}
              /\ Returns(i) /\ calls[i].kind = "start"
              /\ lastResp' \in Rejections )
            => /\ errs' = 1
               /\ (variant = "screen" => Running' = calls[i].pre)
               /\ (variant = "web" => Running' = Running)
               /\ (~calls[i].signalled => Running' = calls[i].pre)
      ]_vars

(* A start was rejected on the web dashboard with one alert shown. *)
C3_Witness ==
    variant = "web" /\ lastResp = "error" /\ errs = 1 /\ ~loading /\ ~isActive

(* C4, as claimed: a feed event reporting running = TRUE while a start is *)
(* pending resolves the command and leaves running = TRUE, source feed.   *)
C4_FeedResolvesStart ==
    [][ StartPending /\ FeedApplied(TRUE) =>
            Running' /\ source' = "feed" /\ NumToggles(calls') = 0
      ]_vars

(* C4, amended: the feed event sets running = TRUE with source feed, the  *)
(* command stays pending; when its call then succeeds, the mobile screen  *)
(* keeps flag and source and the web dashboard applies the response.      *)
C4_FeedAppliedStartStaysPending ==
    [][ /\ (StartPending /\ FeedApplied(TRUE) =>
                /\ Running' /\ source' = "feed"
                /\ NumToggles(calls') = 1 /\ Busy' /\ errs' = 0)
        /\ \A i \in DOMAIN calls :
                (Returns(i) /\ calls[i].kind = "start" /\ lastResp' = "ok") =>
                    /\ (variant = "screen" =>
                            Running' = Running /\ source' = source)
                    /\ (variant = "web" => source' = "response")
      ]_vars

(* The start succeeded on the mobile screen after the feed had confirmed. *)
C4_Witness ==
    /\ variant = "screen" /\ ~toggling /\ calls = <<>>
    /\ lastResp = "ok" /\ status = <<TRUE>> /\ source = "feed"

(* C5: no stop() is still pending once its timeout window has passed      *)
(* without a confirming signal.                                           *)
C5_StopTimesOut ==
    \A i \in Toggles :
        (calls[i].kind = "stop" /\ ~calls[i].signalled) => ~calls[i].expired

(* C6 (web dashboard): every issued start/stop is eventually resolved and *)
(* the toggle lock released, whether or not the backend ever answers.     *)
C6_CommandTerminates ==
    (variant = "web" /\ Toggles # {}) ~> (Toggles = {} /\ ~Busy)

(* C7: a command whose call failed or whose response carried an error has *)
(* shown an error to its initiator.                                       *)
C7_FailuresSurfaced ==
    lastResp \in {"error", "fail", "timeout"} => errs >= 1

(* C8, as claimed: an update contradicting the pending command's expected *)
(* flag is applied and the command is resolved as failed.                 *)
C8_ContradictionResolvesCommand ==
    [][ \A b \in BOOLEAN :
            ((\E i \in Toggles : calls[i].newValue # b) /\ UpdateApplied(b)) =>
                /\ Running' = b
                /\ NumToggles(calls') = 0 /\ lastResp' \in Rejections
      ]_vars

(* C8, amended: the contradicting update is applied, and the command      *)
(* stays pending, with no error shown, until its own call returns.        *)
C8_ContradictionAppliedCommandPending ==
    [][ \A b \in BOOLEAN :
            ((\E i \in Toggles : calls[i].newValue # b) /\ UpdateApplied(b)) =>
                /\ Running' = b
                /\ NumToggles(calls') = NumToggles(calls) /\ Busy'
                /\ errs' = errs /\ lastResp' = lastResp
      ]_vars

(* On the mobile screen a feed event has overwritten the optimistic flag  *)
(* of a command that is still pending.                                    *)
C8_Witness ==
    /\ variant = "screen" /\ toggling /\ source = "feed"
    /\ \E i \in Toggles : calls[i].signalled /\ Running # calls[i].newValue

(* C9: with no command pending, the visible flag is the one of the        *)
(* confirmed update received last.                                        *)
C9_ShowsLastConfirmed ==
    (Toggles = {} /\ ~Busy /\ lastConfirmed # Null)
        => Running = lastConfirmed[1]

(* A step in which a status poll fails. *)
PollFails ==
    \/ variant = "web" /\ pollsInFlight' = pollsInFlight - 1 /\ statusError'
    \/ \E i \in DOMAIN calls : ButtonRefreshReturn(i, FALSE, FALSE)

(* C10: a failed status poll changes none of the run flag, the terminal   *)
(* flag, the position count, the position set and the floating P&L.       *)
C10_FailedPollKeepsData ==
    [][ PollFails =>
            UNCHANGED <<isActive, mt5Connected, positionCount, positions,
                        openPL, isRunning>>
      ]_vars

(* The banner is up and the data of earlier fetches is still shown. *)
C10_Witness ==
    /\ variant = "web" /\ statusError
    /\ isActive /\ mt5Connected /\ positionCount > 0
    /\ positions # {} /\ openPL # 0

(* C11, as claimed: the 'backend offline' banner is up only once three    *)
(* status polls in a row have failed.                                     *)
C11_UnreachableAfterThreeFailures == statusError => consecFails >= 3

(* C11, amended: the banner is up exactly when the status poll that       *)
(* completed last failed: the first failure raises it, the next success   *)
(* clears it, and no count of failures is kept.                           *)
C11_UnreachableIffLastPollFailed == statusError <=> consecFails >= 1

(* One poll has failed after a successful one and the banner is up. *)
C11_Witness ==
    variant = "web" /\ statusError /\ consecFails = 1 /\ source = "poll"

(* A step in which the feed delivers a row whose run flag is the one the  *)
(* feed delivered last, after that one has been applied to the display.   *)
FeedRepeats(row) ==
    /\ botStatus = <<Coalesce(row)>> /\ isActive = Coalesce(row)
    /\ source = "feed" /\ ~effectDue
    /\ FeedBotStatus(row)

(* C12: a feed event that repeats the current run flag notifies nobody    *)
(* and starts no recomputation: no run of the Dashboard effect (status    *)
(* poll, new interval, config fetch) is scheduled.                        *)
C12_DuplicateIsNoOp ==
    [][ \A row \in Rows : FeedRepeats(row) => ~effectDue' ]_vars

(* A step that commits a bot_status row to the client's state. *)
CommitsBotStatus ==
    \/ \E row \in Rows : FeedBotStatus(row)
    \/ \E row \in Rows : FetchStatusDone(<<row>>)

(* C13: every commit of the bot state carries a stamp strictly greater    *)
(* than the one of the state committed before it.                         *)
C13_VersionStrictlyIncreases ==
    [][ CommitsBotStatus => lastUpdated' > lastUpdated ]_vars

(* The profit summed over the tickets held, ticket by ticket. *)
HeldProfit ==
    (IF "A" \in positions THEN Profit("A") ELSE 0)
        + (IF "B" \in positions THEN Profit("B") ELSE 0)

(* C14: a position fetch that returns data replaces the position set by   *)
(* the fetched one (from {A, B}, the snapshot {B} leaves B alone), and in  *)
(* every state the floating P&L is the profit summed over the positions   *)
(* held, 0 for none.                                                       *)
C14_SnapshotReplacesPositions ==
    /\ [](openPL = HeldProfit)
    /\ [][ \A S \in SUBSET Tickets :
              FetchPositionsDone(<<S>>) => positions' = S ]_vars

(* A and B are held with their summed P&L, and the position select of a  *)
(* second fetch is about to return.                                       *)
C14_Witness ==
    /\ variant = "web" /\ positions = {"A", "B"}
    /\ openPL = Profit("A") + Profit("B")
    /\ fetchPositionsInFlight = 1

(* C15: the position set and the floating P&L change only in a step in    *)
(* which a full position fetch returns, and every positions event starts  *)
(* a fetch, whatever row it carries; likewise the statistics change only  *)
(* when a full recomputation returns, which every active_trades event     *)
(* starts.                                                                *)
C15_PositionsOnlyFromFullFetch ==
    [][ /\ (positions' # positions \/ openPL' # openPL) =>
                \E S \in SUBSET Tickets : FetchPositionsDone(<<S>>)
        /\ FeedPositions =>
                /\ fetchStatusInFlight' + fetchPositionsInFlight'
                        = fetchStatusInFlight + fetchPositionsInFlight + 1
                /\ UNCHANGED <<positions, openPL>>
        /\ stats' # stats =>
                \E d \in StatsData :
                    FetchStatsReturn(<<d>>) \/ SyncFetchReturn(<<d>>)
        /\ ActiveTradesEvent =>
                statsFetches' = statsFetches + 1 /\ UNCHANGED <<stats, trend>>
      ]_vars

(* Positions are held and a positions event has started a re-fetch. *)
C15_Witness ==
    /\ variant = "web" /\ positions # {} /\ fetchStatusInFlight = 1

(* The trend the last two floating P&L values taken in call for. *)
ObservedTrend ==
    IF Len(observed) < 2 THEN "neutral"
    ELSE LET p == observed[Len(observed) - 1]
             n == observed[Len(observed)]
         IN  CASE n > p -> "up" [] n < p -> "down" [] OTHER -> "neutral"

(* C16: the trend is up, down or neutral as the floating P&L taken in     *)
(* last is greater than, smaller than or equal to the one before it, and  *)
(* neutral while fewer than two have been taken in; nothing else of the   *)
(* statistics enters.                                                     *)
C16_TrendFromLastTwoFloating == trend = ObservedTrend

(* The floating P&L fell while the total profit rose: the trend is down. *)
C16_Witness ==
    /\ variant = "stats" /\ observed = <<15, 10>> /\ trend = "down"
    /\ stats # Null /\ stats[1].total_profit = 100

(* C17, as claimed: 10, 10, 15 gives neutral, neutral, up, and a value    *)
(* that repeats the one before it leaves the trend as it was.             *)
C17_RepeatKeepsTrend ==
    /\ (observed = <<10, 10, 15>> => trends = <<"neutral", "neutral", "up">>)
    /\ \A i \in 2..Len(observed) :
            observed[i] = observed[i - 1] => trends[i] = trends[i - 1]

(* C17, amended: 10, 10, 15 gives neutral, neutral, up; a value that      *)
(* repeats the one before it sets the trend to neutral, so 10, 15, 15     *)
(* gives neutral, up, neutral.                                            *)
C17_RepeatResetsTrend ==
    /\ (observed = <<10, 10, 15>> => trends = <<"neutral", "neutral", "up">>)
    /\ (observed = <<10, 15, 15>> => trends = <<"neutral", "up", "neutral">>)
    /\ \A i \in 2..Len(observed) :
            observed[i] = observed[i - 1] => trends[i] = "neutral"

(* The rise to 15 was followed by a second 15 and the trend is neutral. *)
C17_Witness ==
    variant = "stats" /\ observed = <<10, 15, 15>> /\ trend = "neutral"

(* A step in which the openOrder() call of invocation i succeeds / fails. *)
OrderSucceeds == \E i \in DOMAIN calls : OpenOrderReturn(i, TRUE)
OrderFails == \E i \in DOMAIN calls : OpenOrderReturn(i, FALSE)

(* C18, as claimed: a successful openOrder issues a status poll at once,  *)
(* and the operator cannot act again before that poll has come back.      *)
C18_RepullBeforeOperatorActs ==
    [][ OrderSucceeds => pollsInFlight' = pollsInFlight + 1 /\ loading' ]_vars

(* C18, amended: a successful openOrder issues a status poll in the very  *)
(* step in which it returns, and releases the controls in the same step,  *)
(* with that poll still out; a failed openOrder issues none.              *)
C18_RepullOnSuccessControlsReleased ==
    [][ /\ OrderSucceeds =>
                /\ pollsInFlight' = pollsInFlight + 1
                /\ ~loading'
        /\ OrderFails => pollsInFlight' = pollsInFlight /\ ~loading'
      ]_vars

(* An order has been placed and its status poll is out while the controls *)
(* are enabled again.                                                     *)
C18_Witness ==
    /\ variant = "web" /\ lastResp = "opened" /\ calls = <<>> /\ ~loading
    /\ mt5Connected /\ pollsInFlight = MaxPolls /\ positionCount = 0

Orders == {i \in DOMAIN calls : calls[i].kind = "order"}

(* C19, as claimed: while a start/stop call is out an open-order request  *)
(* is accepted (the terminal being connected), and while an order is out  *)
(* a second one is not.                                                   *)
C19_OrderIndependentOfToggle ==
    /\ (variant = "web" /\ Toggles # {} /\ Orders = {} /\ mt5Connected)
            => ENABLED OpenOrder
    /\ Orders # {} => ~ENABLED OpenOrder

(* C19, amended: the toggle and the order buttons share one lock: while   *)
(* a call of either kind is out no request of either kind is accepted, so *)
(* at most one handler call is out at a time.                             *)
C19_OrderSharesToggleLock ==
    variant = "web" =>
        /\ Len(calls) <= 1
        /\ calls # <<>> =>
                loading /\ ~ENABLED OpenOrder /\ ~ENABLED WebToggle

(* A start/stop call is out with the terminal connected: only the lock    *)
(* keeps the order buttons disabled.                                      *)
C19_Witness ==
    variant = "web" /\ Toggles # {} /\ mt5Connected /\ loading

(* C20: after the poll issued at startup, a status poll is issued only by *)
(* a tick of the interval (or by the re-pull of a successful openOrder):  *)
(* a failed poll issues none, and neither does a feed update.             *)
C20_PollsOnlyOnSchedule ==
    [][ pollsInFlight' > pollsInFlight => PollTick \/ OrderSucceeds ]_vars

(* Nothing of the refactored pair is in flight: every request has been   *)
(* answered, every effect has run, and both useRealtime instances hold    *)
(* the same row.                                                          *)
PageSettled ==
    /\ variant = "page"
    /\ pcPolls = 0 /\ pcFetches = 0 /\ ~pcEffectDue
    /\ ~dbCountFetch /\ dbCall = Null /\ dbFetches = <<>> /\ ~dbEffectDue
    /\ pcBotStatus = dbBotStatus

(* C21: once everything in flight has been delivered, the header badge    *)
(* and the toggle control show the same run flag, and the position count  *)
(* shown is the size of the position set the floating P&L was summed      *)
(* over.                                                                  *)
C21_OneAuthoritativeView ==
    PageSettled =>
        /\ pcIsActive = dbIsActive
        /\ dbPositionCount = Cardinality(dbPositions)

(* C22: with no command pending, once the update received last has been   *)
(* taken in, the visible run flag is the one that update carried, be it   *)
(* a poll result or a feed row.                                           *)
C22_LaterReceiptWins ==
    (variant \in Containers /\ mounted /\ ~pcEffectDue /\ pcLastReceived # Null)
        => pcIsActive = pcLastReceived[1]

(* What the unmounted programs displayed. *)
displayed == <<pcIsActive, pcMt5Connected, pcStatusError, pcBotStatus, stats,
               trend, error, isLoading, isSyncing, session, appLoading>>

(* C23: after teardown no poll timer, no change-feed channel and no       *)
(* listener is left registered, and nothing that arrives afterwards       *)
(* (poll result, feed event, fetch result) changes the state.             *)
C23_TeardownReleasesAll ==
    /\ [](~mounted =>
            /\ pcTimers = 0 /\ pcChannels = 0 /\ statsChannels = 0
            /\ authListeners = 0)
    /\ [][~mounted => UNCHANGED displayed]_vars

(* A step in which a fetchStats() of the mounted hook ends in its catch. *)
StatsFetchFails == mounted /\ (FetchStatsReturn(Null) \/ SyncFetchReturn(Null))

(* C24: the statistics are null until a fetchStats() has succeeded, they  *)
(* first appear in a step in which one succeeds, and a fetchStats() that  *)
(* fails leaves statistics and trend as they were and records the error.  *)
C24_NoStatsBeforeFirstSuccess ==
    /\ [](observed = <<>> => stats = Null)
    /\ [][ /\ (stats = Null /\ stats' # Null) =>
                \E d \in StatsData :
                    FetchStatsReturn(<<d>>) \/ SyncFetchReturn(<<d>>)
          /\ StatsFetchFails => UNCHANGED <<stats, trend>> /\ error'
        ]_vars

(* Statistics and a rising trend are held, and a fetch has failed. *)
C24_Witness ==
    /\ variant = "stats" /\ mounted /\ error /\ StatsOutstanding = 0
    /\ stats # Null /\ trend = "up" /\ observed = <<10, 15>>

(* C25: every sync action posts the sync and, once that has succeeded,    *)
(* issues a recomputation; every trade_logs event issues one; and after a *)
(* sync has completed with its recomputation, the statistics shown are    *)
(* never those of a recomputation that was issued before the sync.        *)
C25_SyncShowsRecomputedStats ==
    /\ [](syncShown # "stale")
    /\ [][ /\ (TradeLogsEvent => statsFetches' = statsFetches + 1)
          /\ (SyncTrades => syncPosts' = syncPosts + 1)
          /\ (SyncPostReturn(TRUE) => syncFetches' = syncFetches + 1)
        ]_vars

(* C26: every toggle request issues the command opposite to the running   *)
(* state shown when it is made: stop while running, start while not, for  *)
(* the first toggle and for every later one.                              *)
C26_ToggleTargetsNegation ==
    [][ToggleRequest =>
          calls'[Len(calls')].kind = (IF Running THEN "stop" ELSE "start")]_vars

(* C27: a bot-status update without a usable run flag (the empty new row  *)
(* of a delete notification, a row with neither running nor is_active)   *)
(* leaves the visible run flag as it was.                                 *)
C27_FlaglessEventKeepsFlag ==
    [][(DbEffect /\ dbDefaulted) => dbIsActive' = dbIsActive]_vars

(* C28: when fetchData calls overlap, the positions and the floating P&L  *)
(* are never set by a call that was started before one whose result has   *)
(* already been applied.                                                  *)
C28_EarlierFetchNeverOverwrites ==
    [][\A i \in 1..MaxPageFetches : \A S \in SUBSET PageTickets :
          DbFetchPositionsDone(i, <<S>>) => ~dbFetches[i].overtaken]_vars

(* C29: a mounted container never has more than one live poll timer, and  *)
(* no step, a re-run of the polling effect included, raises the number of *)
(* live timers.                                                           *)
C29_OnePollTimer ==
    /\ [](variant \in Containers => pcTimers <= 1)
    /\ [][pcTimers' <= pcTimers]_vars

(* The feed has delivered a bot status and the polling effect has re-run  *)
(* for it: one timer is live.                                             *)
C29_Witness ==
    /\ variant = "container" /\ mounted
    /\ pcBotStatus # Null /\ ~pcEffectDue
    /\ pcTimers = 1

(* No symbol occurs twice in the list. *)
NoDuplicates(list) ==
    \A i, j \in DOMAIN list : i # j => list[i] # list[j]

SetOf(list) == {list[i] : i \in DOMAIN list}

(* A toggleSymbol or removeSymbol step. *)
SymbolOperation ==
    \E symbol \in Symbols : ToggleSymbol(symbol) \/ RemoveSymbol(symbol)

(* A toggle of a symbol that is not selected, on a watchlist of three,   *)
(* changes nothing.                                                      *)
FullWatchlistRefuses ==
    [][\A symbol \in Symbols :
          (/\ ToggleSymbol(symbol)
           /\ Len(selectedSymbolsList) >= MaxSymbols
           /\ ~Includes(selectedSymbolsList, symbol))
          => strategy_symbols' = strategy_symbols]_vars

(* The second of two toggles of one symbol, the first made on a watchlist *)
(* that was not full, gives back the symbols the first was made on.       *)
ToggleTwiceRestores ==
    [][\A symbol \in Symbols :
          (/\ ToggleSymbol(symbol)
           /\ lastToggle # Null
           /\ lastToggle[1].symbol = symbol
           /\ Len(lastToggle[1].before) < MaxSymbols)
          => SetOf(SymbolsOf(strategy_symbols')) = SetOf(lastToggle[1].before)]_vars

(* C30 as stated: after toggleSymbol and removeSymbol steps that started  *)
(* from a watchlist of at most three symbols, the watchlist has at most   *)
(* three symbols and none twice; a full watchlist refuses an absent       *)
(* symbol; toggling twice restores the set.                               *)
C30_WatchlistBounded ==
    /\ [][(SymbolOperation /\ Len(startList) <= MaxSymbols)
            => /\ Len(SymbolsOf(strategy_symbols')) <= MaxSymbols
               /\ NoDuplicates(SymbolsOf(strategy_symbols'))]_vars
    /\ FullWatchlistRefuses
    /\ ToggleTwiceRestores

(* C30, amended: the same, for operations that started from a watchlist   *)
(* of at most three symbols in which no symbol is repeated.               *)
C30_WatchlistBoundedFromDistinct ==
    /\ [][(/\ SymbolOperation
           /\ Len(startList) <= MaxSymbols
           /\ NoDuplicates(startList))
            => /\ Len(SymbolsOf(strategy_symbols')) <= MaxSymbols
               /\ NoDuplicates(SymbolsOf(strategy_symbols'))]_vars
    /\ FullWatchlistRefuses
    /\ ToggleTwiceRestores

(* The watchlist loaded with two symbols has been filled to three, and a  *)
(* fourth symbol has been toggled on it.                                  *)
C30_Witness ==
    /\ variant = "config" /\ ~configFetch
    /\ Len(startList) = 2 /\ NoDuplicates(startList)
    /\ lastToggle # Null
    /\ Len(lastToggle[1].before) = MaxSymbols
    /\ ~Includes(lastToggle[1].before, lastToggle[1].symbol)
    /\ selectedSymbolsList = lastToggle[1].before

====
